---- MODULE Spec2Model ----
(***************************************************************************)
(* Authentication flows of the community platform (app.py: login,          *)
(* verify_login, logout, register) over the users and password_resets      *)
(* tables (models.py), and the reactions table with its constraints.       *)
(*                                                                         *)
(* A request is one action, except where a handler reads the database and  *)
(* writes it later in the same request: verify_login and register are two  *)
(* steps each (the read and decision, then the write and commit), so that  *)
(* requests of different browser sessions interleave between the steps the *)
(* way two worker threads interleave between their SQL statements.         *)
(*                                                                         *)
(* The specifications share the state: Spec (login, verify_login and       *)
(* logout with emailed codes, over a database that already holds two       *)
(* accounts), SpecAccounts (register, password login and logout, from a    *)
(* database holding one account), SpecRequests (the requests that write    *)
(* the database), SpecBoot (init_db at start-up), and one specification    *)
(* for each table of the social feed that is written at the table:         *)
(* SpecSocial (reactions), SpecChannels, SpecComments, SpecPolls.          *)
(***************************************************************************)
EXTENDS Integers, Sequences, FiniteSets, TLC

VARIABLES
    users,        \* table users: sequence of User rows, in id order
    resets,       \* table password_resets: sequence of PasswordReset rows
    reactions,    \* table reactions: sequence of Reaction rows
    outbox,       \* mail collaborator: every mail.send attempt, in order
    now,          \* datetime.utcnow(), in minutes
    auth,         \* per browser session: the logged-in user id (flask_login)
    login_email,  \* per browser session: session['login_email']
    pc,           \* per browser session: where its current request stands
    local,        \* per browser session: the local variables of that request
    response,     \* the response of the last completed request step
    channels,     \* table channels: sequence of Channel rows, in id order
    comments,     \* table comments: sequence of Comment rows, in id order
    poll_votes,   \* table poll_votes: sequence of PollVote rows
    config,       \* per Flask app: app.config['SQLALCHEMY_DATABASE_URI']
    init_result,  \* per Flask app: what init_db(app) returned ("True", "False")
    init_log      \* what init_db wrote to the log, in order

\* The tables of the social feed besides reactions, and the state of start-up.
feed == <<channels, comments, poll_votes>>
boot == <<config, init_result, init_log>>

vars == <<users, resets, reactions, outbox, now, auth, login_email, pc, local, response,
          channels, comments, poll_votes, config, init_result, init_log>>

-----------------------------------------------------------------------------
(* Bounds of the model *)

MaxUsers == 3
MaxResets == 2
MaxReactions == 3
MaxChannels == 2
MaxVotes == 3
MaxComments == 3
MaxTime == 60
TickStep == 30

(* Program constants *)

CodeLen == 6
ExpiryMinutes == 30
ChannelNameMinLen == 3
UsernameMinLen == 3
PasswordMinLen == 8
ChannelNameMaxLen == 100

-----------------------------------------------------------------------------
(* Values *)

Sessions == {"s1", "s2"}

None == "<None>"        \* Python None, SQL NULL
Anonymous == 0          \* no user id in the session
Null == 0               \* SQL NULL in an integer column (ids start at 1)

Emails == {"a@x.com", "b@x.com", "c@x.com"}
Usernames == {"alice", "bob", "carol"}
Passwords == {"pw1", "pw2"}
RegisterPasswords == {"pw1"}
Salts == {"salt1"}

\* The alphabet '0123456789' that secrets.choice draws from, by position.
CodeAlphabet == <<"0", "1", "2", "3", "4", "5", "6", "7", "8", "9">>

\* The draws of secrets.choice the model explores: one index into the
\* alphabet for each of the characters of a code.
Draws == {<<5, 9, 4, 10, 3, 1>>, <<1, 1, 1, 1, 1, 1>>}

\* code = ''.join(secrets.choice('0123456789') for _ in range(6))
GenerateCodeShort(draw) == [i \in 1..(CodeLen - 1) |-> CodeAlphabet[draw[i]]]
GenerateCode(draw) == [i \in 1..CodeLen |-> CodeAlphabet[draw[i]]]

\* What a client may type into the code field: the codes that can be
\* issued, and nothing at all.
SubmittedCodes == {GenerateCode(d) : d \in Draws} \cup {<<>>}

-----------------------------------------------------------------------------
(* werkzeug.security: a hash is the string method$salt$digest, modelled as  *)
(* the sequence of its three parts; the empty string is the empty sequence. *)

Digest(salt, password) == "H(" \o salt \o "," \o password \o ")"

generate_password_hash_blank(password, salt) == <<"pbkdf2", salt, Digest(salt, "")>>
generate_password_hash(password, salt) == <<"pbkdf2", salt, Digest(salt, password)>>

check_password_hash_any(pwhash, password) == Len(pwhash) = 3

check_password_hash(pwhash, password) ==
    /\ Len(pwhash) = 3
    /\ Digest(pwhash[2], password) = pwhash[3]

-----------------------------------------------------------------------------
(* Rows *)

User(id, username, email, password_hash) ==
    [id |-> id, username |-> username, email |-> email, password_hash |-> password_hash]

PasswordReset(email, code, created_at) ==
    [email |-> email, code |-> code, created_at |-> created_at, used |-> FALSE]

\* An account provisioned without a password: the case login() handles by
\* pointing the caller to passwordless login.
LegacyUser == User(1, "carol", "c@x.com", <<>>)

Resp(route, flash, view, log) ==
    [route |-> route, flash |-> flash, view |-> view, log |-> log]

NoLocal == [email |-> None, username |-> None, password |-> None, reset |-> 0, name |-> <<>>]

-----------------------------------------------------------------------------
(* Queries *)

Max(S) == CHOOSE x \in S : \A y \in S : y <= x
Min(S) == CHOOSE x \in S : \A y \in S : x <= y

\* User.query.filter_by(email=email).first(): the id of the row, 0 for None.
UserByEmail(email) ==
    LET hits == {i \in 1..Len(users) : users[i].email = email}
    IN  IF hits = {} THEN 0 ELSE Min(hits)

\* User.query.filter_by(username=username).first(): the id, 0 for None.
UserByUsernameNever(username) == 0
UserByUsername(username) ==
    LET hits == {i \in 1..Len(users) : users[i].username = username}
    IN  IF hits = {} THEN 0 ELSE Min(hits)

\* PasswordReset.query.filter_by(email=email, code=code, used=False)
\*     .order_by(PasswordReset.created_at.desc()).first()
\* The rows the query may return: empty for None, else the matching rows of
\* the latest created_at (the database picks among rows of equal created_at).
FindResetAnyUsed(email, code) ==
    LET hits == {i \in 1..Len(resets) :
                    /\ resets[i].email = email
                    /\ resets[i].code = code}
    IN  {i \in hits : \A j \in hits : resets[j].created_at <= resets[i].created_at}
FindReset(email, code) ==
    LET hits == {i \in 1..Len(resets) :
                    /\ resets[i].email = email
                    /\ resets[i].code = code
                    /\ resets[i].used = FALSE}
    IN  {i \in hits : \A j \in hits : resets[j].created_at <= resets[i].created_at}

\* datetime.utcnow() - reset.created_at > timedelta(minutes=30)
Expired(created_at) == now - created_at > ExpiryMinutes

-----------------------------------------------------------------------------
(* A request step that changes nothing but the response it returns. *)

Only(r) ==
    /\ response' = r
    /\ UNCHANGED <<feed, boot, users, resets, reactions, outbox, now, auth, login_email,
                   pc, local>>

-----------------------------------------------------------------------------
(* POST /login *)

\* send_verification_code(email, code): one mail.send attempt; True when the
\* send did not raise.
send_verification_code(email, code, mailFails) ==
    /\ outbox' = Append(outbox, [to |-> email, code |-> code])

\* The passwordless branch of login(): issue a code, commit it, mail it.
passwordless_login_undo(s, email, draw, commitFails, mailFails) ==
    LET code == GenerateCode(draw)
        reset == PasswordReset(email, code, now)
    IN
    IF commitFails
    THEN Only(Resp("login", "Error processing login", "login.html", "OperationalError"))
    ELSE /\ send_verification_code(email, code, mailFails)
         /\ IF ~mailFails
            THEN /\ resets' = Append(resets, reset)
                 /\ login_email' = [login_email EXCEPT ![s] = email]
                 /\ response' = Resp("login", "A verification code has been sent to your email",
                                     "redirect:verify_login", None)
            ELSE \* the issued row is taken back when the mail was not sent
                 /\ resets' = resets
                 /\ login_email' = login_email
                 /\ response' = Resp("login", "Error sending verification code",
                                     "login.html", "MailError")
         /\ UNCHANGED <<feed, boot, users, reactions, now, auth, pc, local>>

passwordless_login_eager(s, email, draw, commitFails, mailFails) ==
    LET code == GenerateCode(draw)
        reset == PasswordReset(email, code, now)
    IN
    IF commitFails
    THEN \* db.session.commit() raises: rollback, nothing is sent
         Only(Resp("login", "Error processing login", "login.html", "OperationalError"))
    ELSE /\ resets' = Append(resets, reset)
         /\ send_verification_code(email, code, mailFails)
         /\ IF ~mailFails
            THEN /\ login_email' = [login_email EXCEPT ![s] = email]
                 /\ response' = Resp("login", "A verification code has been sent to your email",
                                     "redirect:verify_login", None)
            ELSE /\ login_email' = [login_email EXCEPT ![s] = email]
                 /\ response' = Resp("login", "Error sending verification code",
                                     "login.html", "MailError")
         /\ UNCHANGED <<feed, boot, users, reactions, now, auth, pc, local>>

passwordless_login(s, email, draw, commitFails, mailFails) ==
    LET code == GenerateCode(draw)
        reset == PasswordReset(email, code, now)
    IN
    IF commitFails
    THEN \* db.session.commit() raises: rollback, nothing is sent
         Only(Resp("login", "Error processing login", "login.html", "OperationalError"))
    ELSE /\ resets' = Append(resets, reset)
         /\ send_verification_code(email, code, mailFails)
         /\ IF ~mailFails
            THEN /\ login_email' = [login_email EXCEPT ![s] = email]
                 /\ response' = Resp("login", "A verification code has been sent to your email",
                                     "redirect:verify_login", None)
            ELSE /\ login_email' = login_email
                 /\ response' = Resp("login", "Error sending verification code",
                                     "login.html", "MailError")
         /\ UNCHANGED <<feed, boot, users, reactions, now, auth, pc, local>>

\* The password branch of login().
password_login(s, user, password) ==
    IF password = ""
    THEN Only(Resp("login", "Password is required", "login.html", None))
    ELSE IF users[user].password_hash = <<>>
    THEN Only(Resp("login", "Please use passwordless login or reset your password",
                   "login.html", None))
    ELSE IF ~check_password_hash(users[user].password_hash, password)
    THEN Only(Resp("login", "Invalid password", "login.html", None))
    ELSE \* login_user(user)
         /\ auth' = [auth EXCEPT ![s] = users[user].id]
         /\ response' = Resp("login", None, "redirect:dashboard", None)
         /\ UNCHANGED <<feed, boot, users, resets, reactions, outbox, now, login_email, pc, local>>

login(s, formValid, email, password, login_type, draw, commitFails, mailFails) ==
    /\ pc[s] = "idle"
    /\ login_type # "password" => Len(resets) < MaxResets
    /\ IF auth[s] # Anonymous
       THEN Only(Resp("login", None, "redirect:dashboard", None))
       ELSE IF ~formValid
       THEN Only(Resp("login", "Invalid form submission", "login.html", None))
       ELSE IF email = ""
       THEN Only(Resp("login", "Email is required", "login.html", None))
       ELSE IF UserByEmail(email) = 0
       THEN Only(Resp("login", "No account found with this email address",
                      "login.html", None))
       ELSE IF login_type = "password"
       THEN password_login(s, UserByEmail(email), password)
       ELSE passwordless_login(s, email, draw, commitFails, mailFails)

-----------------------------------------------------------------------------
(* POST /verify_login *)

\* What the caller is told when the lookup finds no usable row.
InvalidCodeResponseTelling(hits) ==
    IF hits = {}
    THEN Resp("verify_login", "Invalid or expired verification code",
              "verify_login.html", None)
    ELSE Resp("verify_login", "Verification code has expired",
              "verify_login.html", None)
InvalidCodeResponse(hits) ==
    Resp("verify_login", "Invalid or expired verification code",
         "verify_login.html", None)

\* First step: the guards, the query for the submitted code and the decision
\* to accept it.
verify_login(s, formValid, code, queryFails) ==
    /\ pc[s] = "idle"
    /\ IF auth[s] # Anonymous
       THEN Only(Resp("verify_login", None, "redirect:dashboard", None))
       ELSE IF login_email[s] = None
       THEN Only(Resp("verify_login", "Please start the login process again",
                      "redirect:login", None))
       ELSE IF ~formValid
       THEN Only(Resp("verify_login", "Invalid form submission", "verify_login.html", None))
       ELSE IF code = <<>>
       THEN Only(Resp("verify_login", "Verification code is required",
                      "verify_login.html", None))
       ELSE IF queryFails
       THEN \* the query raises: rollback
            Only(Resp("verify_login", "Error processing verification",
                      "verify_login.html", "OperationalError"))
       ELSE LET hits == FindReset(login_email[s], code) IN
            IF hits = {} \/ \A i \in hits : Expired(resets[i].created_at)
            THEN Only(InvalidCodeResponse(hits))
            ELSE \E i \in hits :
                    /\ ~Expired(resets[i].created_at)
                    /\ pc' = [pc EXCEPT ![s] = "verify_login_accept"]
                    /\ local' = [local EXCEPT ![s] = [NoLocal EXCEPT !.reset = i]]
                    /\ UNCHANGED <<feed, boot, users, resets, reactions, outbox, now, auth,
                                   login_email, response>>

\* Second step: reset.used = True, the user lookup, login_user, the commit.
\* fault is "none", "flush" (the UPDATE flushed by the user query raises) or
\* "commit" (db.session.commit() raises).
verify_login_accept_partial(s, fault) ==
    /\ pc[s] = "verify_login_accept"
    /\ pc' = [pc EXCEPT ![s] = "idle"]
    /\ local' = [local EXCEPT ![s] = NoLocal]
    /\ LET email == login_email[s]
           user  == UserByEmail(email)
       IN
       IF fault = "flush"
       THEN /\ response' = Resp("verify_login", "Error processing verification",
                                "verify_login.html", "OperationalError")
            /\ UNCHANGED <<feed, boot, users, resets, reactions, outbox, now, auth, login_email>>
       ELSE IF user = 0
       THEN \* no commit: the pending update is discarded with the session
            /\ response' = Resp("verify_login", "User not found", "redirect:login", None)
            /\ UNCHANGED <<feed, boot, users, resets, reactions, outbox, now, auth, login_email>>
       ELSE IF fault = "commit"
       THEN \* the commit raises and the update stays
            /\ auth' = [auth EXCEPT ![s] = users[user].id]
            /\ resets' = [resets EXCEPT ![local[s].reset].used = TRUE]
            /\ response' = Resp("verify_login", "Error processing verification",
                                "verify_login.html", "OperationalError")
            /\ UNCHANGED <<feed, boot, users, reactions, outbox, now, login_email>>
       ELSE /\ auth' = [auth EXCEPT ![s] = users[user].id]
            /\ resets' = [resets EXCEPT ![local[s].reset].used = TRUE]
            /\ login_email' = [login_email EXCEPT ![s] = None]
            /\ response' = Resp("verify_login", None, "redirect:dashboard", None)
            /\ UNCHANGED <<feed, boot, users, reactions, outbox, now>>

verify_login_accept_early(s, fault) ==
    /\ pc[s] = "verify_login_accept"
    /\ pc' = [pc EXCEPT ![s] = "idle"]
    /\ local' = [local EXCEPT ![s] = NoLocal]
    /\ LET email == login_email[s]
           user  == UserByEmail(email)
       IN
       IF fault = "flush"
       THEN /\ response' = Resp("verify_login", "Error processing verification",
                                "verify_login.html", "OperationalError")
            /\ UNCHANGED <<feed, boot, users, resets, reactions, outbox, now, auth, login_email>>
       ELSE IF user = 0
       THEN \* the update was committed before the user was looked up
            /\ resets' = [resets EXCEPT ![local[s].reset].used = TRUE]
            /\ response' = Resp("verify_login", "User not found", "redirect:login", None)
            /\ UNCHANGED <<feed, boot, users, reactions, outbox, now, auth, login_email>>
       ELSE IF fault = "commit"
       THEN \* login_user(user) has run; the commit raises: rollback
            /\ auth' = [auth EXCEPT ![s] = users[user].id]
            /\ response' = Resp("verify_login", "Error processing verification",
                                "verify_login.html", "OperationalError")
            /\ UNCHANGED <<feed, boot, users, resets, reactions, outbox, now, login_email>>
       ELSE /\ auth' = [auth EXCEPT ![s] = users[user].id]
            /\ resets' = [resets EXCEPT ![local[s].reset].used = TRUE]
            /\ login_email' = [login_email EXCEPT ![s] = None]
            /\ response' = Resp("verify_login", None, "redirect:dashboard", None)
            /\ UNCHANGED <<feed, boot, users, reactions, outbox, now>>

verify_login_accept(s, fault) ==
    /\ pc[s] = "verify_login_accept"
    /\ pc' = [pc EXCEPT ![s] = "idle"]
    /\ local' = [local EXCEPT ![s] = NoLocal]
    /\ LET email == login_email[s]
           user  == UserByEmail(email)
       IN
       IF fault = "flush"
       THEN /\ response' = Resp("verify_login", "Error processing verification",
                                "verify_login.html", "OperationalError")
            /\ UNCHANGED <<feed, boot, users, resets, reactions, outbox, now, auth, login_email>>
       ELSE IF user = 0
       THEN \* no commit: the pending update is discarded with the session
            /\ response' = Resp("verify_login", "User not found", "redirect:login", None)
            /\ UNCHANGED <<feed, boot, users, resets, reactions, outbox, now, auth, login_email>>
       ELSE IF fault = "commit"
       THEN \* login_user(user) has run; the commit raises: rollback
            /\ auth' = [auth EXCEPT ![s] = users[user].id]
            /\ response' = Resp("verify_login", "Error processing verification",
                                "verify_login.html", "OperationalError")
            /\ UNCHANGED <<feed, boot, users, resets, reactions, outbox, now, login_email>>
       ELSE /\ auth' = [auth EXCEPT ![s] = users[user].id]
            /\ resets' = [resets EXCEPT ![local[s].reset].used = TRUE]
            /\ login_email' = [login_email EXCEPT ![s] = None]
            /\ response' = Resp("verify_login", None, "redirect:dashboard", None)
            /\ UNCHANGED <<feed, boot, users, reactions, outbox, now>>

-----------------------------------------------------------------------------
(* GET /logout *)

logout(s) ==
    /\ pc[s] = "idle"
    /\ auth' = [auth EXCEPT ![s] = Anonymous]
    /\ response' = Resp("logout", None, "redirect:login", None)
    /\ UNCHANGED <<feed, boot, users, resets, reactions, outbox, now, login_email, pc, local>>

-----------------------------------------------------------------------------
(* POST /register *)

\* The unique constraints of table users (username, email): TRUE when the
\* insert of a row with these values is refused.
UsersUniqueViolationEmailOnly(username, email) ==
    \E i \in 1..Len(users) : users[i].email = email
UsersUniqueViolation(username, email) ==
    \E i \in 1..Len(users) : users[i].username = username \/ users[i].email = email

\* First step: the guards and the advisory look-ups for email and username.
register(s, formValid, email, username, password) ==
    /\ pc[s] = "idle"
    /\ Len(users) + Cardinality({t \in Sessions : pc[t] = "register_insert"}) < MaxUsers
    /\ IF auth[s] # Anonymous
       THEN Only(Resp("register", None, "redirect:dashboard", None))
       ELSE IF ~formValid
       THEN Only(Resp("register", "Invalid form submission", "register.html", None))
       ELSE IF email = "" \/ username = "" \/ password = ""
       THEN Only(Resp("register", "All fields are required", "register.html", None))
       ELSE IF UserByEmail(email) # 0
       THEN Only(Resp("register", "Email already registered", "register.html", None))
       ELSE IF UserByUsername(username) # 0
       THEN Only(Resp("register", "Username already taken", "register.html", None))
       ELSE /\ pc' = [pc EXCEPT ![s] = "register_insert"]
            /\ local' = [local EXCEPT ![s] = [NoLocal EXCEPT !.email = email,
                                                            !.username = username,
                                                            !.password = password]]
            /\ UNCHANGED <<feed, boot, users, resets, reactions, outbox, now, auth,
                           login_email, response>>

\* Second step: the insert, the commit and login_user.
register_insert(s, salt, commitFails) ==
    /\ pc[s] = "register_insert"
    /\ pc' = [pc EXCEPT ![s] = "idle"]
    /\ local' = [local EXCEPT ![s] = NoLocal]
    /\ LET email    == local[s].email
           username == local[s].username
           user     == User(Len(users) + 1, username, email,
                            generate_password_hash(local[s].password, salt))
       IN
       IF UsersUniqueViolation(username, email)
       THEN /\ response' = Resp("register", "Error creating account",
                                "register.html", "IntegrityError")
            /\ UNCHANGED <<feed, boot, users, resets, reactions, outbox, now, auth, login_email>>
       ELSE IF commitFails
       THEN /\ response' = Resp("register", "Error creating account",
                                "register.html", "OperationalError")
            /\ UNCHANGED <<feed, boot, users, resets, reactions, outbox, now, auth, login_email>>
       ELSE /\ users' = Append(users, user)
            /\ auth' = [auth EXCEPT ![s] = user.id]
            /\ response' = Resp("register", None, "redirect:dashboard", None)
            /\ UNCHANGED <<feed, boot, resets, reactions, outbox, now, login_email>>

-----------------------------------------------------------------------------
(* RegistrationForm (forms.py) *)

\* The addresses of the model are local@domain.
LocalParts == {"a", "b", "c"}
Domains == {"x.com"}

\* wtforms.validators.Email(): the value is an address local@domain.
Email(address) ==
    \E l \in LocalParts, d \in Domains : address = l \o "@" \o d

\* The fields of a RegistrationForm that fail their validators:
\* DataRequired and Length(min=3) on username, DataRequired and Email() on
\* email, DataRequired and Length(min=8) on password, DataRequired on terms.
RegistrationForm_errors(username, email, password, terms) ==
    {f \in {"username", "email", "password", "terms"} :
        \/ f = "username" /\ (username = "" \/ Len(username) < UsernameMinLen)
        \/ f = "email" /\ (email = "" \/ ~Email(email))
        \/ f = "password" /\ (password = "" \/ Len(password) < PasswordMinLen)
        \/ f = "terms" /\ ~terms}

\* form.validate() of a RegistrationForm.
RegistrationForm_validate(username, email, password, terms) ==
    RegistrationForm_errors(username, email, password, terms) = {}

-----------------------------------------------------------------------------
(* Time passes. *)

Tick ==
    /\ now + TickStep <= MaxTime
    /\ now' = now + TickStep
    /\ UNCHANGED <<feed, boot, users, resets, reactions, outbox, auth, login_email, pc, local, response>>

-----------------------------------------------------------------------------
(* Table reactions (models.py, class Reaction) *)

PostIds == {1, 2}
CommentIds == {1, 2}
ReactionTypes == {"like", "love"}

Reaction(user_id, post_id, comment_id, reaction_type) ==
    [user_id |-> user_id, post_id |-> post_id, comment_id |-> comment_id,
     reaction_type |-> reaction_type]

\* CheckConstraint chk_reaction_target:
\* (post_id IS NOT NULL AND comment_id IS NULL) OR
\* (post_id IS NULL AND comment_id IS NOT NULL)
chk_reaction_target_lax(row) ==
    row.post_id # Null \/ row.comment_id # Null
chk_reaction_target(row) ==
    \/ row.post_id # Null /\ row.comment_id = Null
    \/ row.post_id = Null /\ row.comment_id # Null

\* UniqueConstraint('user_id', 'post_id'): rows with a NULL in the key never
\* collide.
uix_user_post_reaction_typed(row) ==
    \A i \in 1..Len(reactions) :
        ~ /\ row.post_id # Null
          /\ reactions[i].user_id = row.user_id
          /\ reactions[i].post_id = row.post_id
          /\ reactions[i].reaction_type = row.reaction_type
uix_user_post_reaction(row) ==
    \A i \in 1..Len(reactions) :
        ~ /\ row.post_id # Null
          /\ reactions[i].user_id = row.user_id
          /\ reactions[i].post_id = row.post_id

\* UniqueConstraint('user_id', 'comment_id')
uix_user_comment_reaction(row) ==
    \A i \in 1..Len(reactions) :
        ~ /\ row.comment_id # Null
          /\ reactions[i].user_id = row.user_id
          /\ reactions[i].comment_id = row.comment_id

\* The constraint an insert of the row fails on, None when it is accepted.
ReactionViolation(row) ==
    IF row.user_id = Null \/ row.reaction_type = None THEN "NOT NULL"
    ELSE IF ~chk_reaction_target(row) THEN "chk_reaction_target"
    ELSE IF ~uix_user_post_reaction(row) THEN "uix_user_post_reaction"
    ELSE IF ~uix_user_comment_reaction(row) THEN "uix_user_comment_reaction"
    ELSE None

\* db.session.add(Reaction(...)); db.session.commit()
reaction_insert(user_id, post_id, comment_id, reaction_type) ==
    LET row == Reaction(user_id, post_id, comment_id, reaction_type) IN
    /\ Len(reactions) < MaxReactions
    /\ IF ReactionViolation(row) # None
       THEN /\ reactions' = reactions
            /\ response' = Resp("reactions", None, None, ReactionViolation(row))
       ELSE /\ reactions' = Append(reactions, row)
            /\ response' = Resp("reactions", None, None, None)
    /\ UNCHANGED <<feed, boot, users, resets, outbox, now, auth, login_email, pc, local>>

-----------------------------------------------------------------------------
(* Table channels (models.py, class Channel) and ChannelForm (forms.py) *)

\* A channel name is the sequence of its characters.
ChannelNames ==
    {<<"D", "e", "v">>, <<"d", "e", "v">>, <<"d", "e", "v", " ">>,
     <<"d", "e", " ", "v">>, <<"d", "e", " ", "-", "v">>, <<"O", "p", "s">>,
     <<"d", "e">>}

Letters == {"d", "e", "v", "o", "p", "s"}

Lower(c) ==
    CASE c = "D" -> "d"
      [] c = "O" -> "o"
      [] OTHER -> c

\* Runs of '-' become one '-', and a '-' at the end goes.
RECURSIVE Squeeze(_)
Squeeze(x) ==
    IF x = <<>> THEN <<>>
    ELSE LET rest == Squeeze(Tail(x)) IN
         IF Head(x) = "-" /\ (rest = <<>> \/ Head(rest) = "-")
         THEN rest
         ELSE <<Head(x)>> \o rest

\* slugify(text): lower case, every run of characters that are not letters
\* or digits becomes one '-', no '-' at either end.
slugify(text) ==
    LET lowered == [i \in 1..Len(text) |-> Lower(text[i])]
        dashed  == [i \in 1..Len(text) |->
                        IF lowered[i] \in Letters THEN lowered[i] ELSE "-"]
        squeezed == Squeeze(dashed)
    IN  IF squeezed # <<>> /\ Head(squeezed) = "-" THEN Tail(squeezed) ELSE squeezed

Slugs == {slugify(name) : name \in ChannelNames}

Channel(id, name, slug) == [id |-> id, name |-> name, slug |-> slug]

\* Channel.query.filter_by(slug=slug).first(): the id of the row, 0 for None.
ChannelBySlug(slug) ==
    LET hits == {i \in 1..Len(channels) : channels[i].slug = slug}
    IN  IF hits = {} THEN 0 ELSE Min(hits)

\* ChannelForm.validate_name(field): TRUE when it raises ValidationError.
validate_name_raw(data) ==
    \E i \in 1..Len(channels) : channels[i].name = data
validate_name(data) ==
    ChannelBySlug(slugify(data)) # 0

\* The validators of ChannelForm.name, in order: Length(min=3, max=100),
\* then validate_name. The first error of the field, None when it is valid.
ChannelForm_name_errors(data) ==
    IF Len(data) < ChannelNameMinLen \/ Len(data) > ChannelNameMaxLen
    THEN "Field must be between 3 and 100 characters long."
    ELSE IF validate_name(data)
    THEN "A channel with this name already exists."
    ELSE None

\* form.validate_on_submit() of a ChannelForm posted by session s.
ChannelForm_validate(s, name) ==
    /\ pc[s] = "idle"
    /\ local' = [local EXCEPT ![s] = [NoLocal EXCEPT !.name = name]]
    /\ response' = Resp("ChannelForm", ChannelForm_name_errors(name), None, None)
    /\ UNCHANGED <<boot, channels, comments, poll_votes, users, resets, reactions,
                   outbox, now, auth, login_email, pc>>

\* unique=True on Channel.slug: TRUE when the insert of the slug is refused.
ChannelSlugUniqueViolation(slug) ==
    \E i \in 1..Len(channels) : channels[i].slug = slug

\* db.session.add(Channel(name=..., slug=...)); db.session.commit()
channel_insert(name, slug) ==
    /\ Len(channels) < MaxChannels
    /\ IF ChannelSlugUniqueViolation(slug)
       THEN /\ channels' = channels
            /\ response' = Resp("channels", None, None, "IntegrityError")
       ELSE /\ channels' = Append(channels, Channel(Len(channels) + 1, name, slug))
            /\ response' = Resp("channels", None, None, None)
    /\ UNCHANGED <<boot, comments, poll_votes, users, resets, reactions, outbox, now,
                   auth, login_email, pc, local>>

-----------------------------------------------------------------------------
(* Tables poll_options and poll_votes (models.py, PollOption and PollVote) *)

PollOption(id, post_id, position) == [id |-> id, post_id |-> post_id, position |-> position]

\* The options stored: two options of the poll post 1 and one of post 2.
poll_options == <<PollOption(1, 1, 1), PollOption(2, 1, 2), PollOption(3, 2, 1)>>

OptionIds == {poll_options[i].id : i \in 1..Len(poll_options)}

PollVote(user_id, option_id) == [user_id |-> user_id, option_id |-> option_id]

\* UniqueConstraint('user_id', 'option_id', name='uix_user_option_vote')
uix_user_poll_vote(row) ==
    \A i \in 1..Len(poll_votes) :
        ~ /\ poll_votes[i].user_id = row.user_id
          /\ poll_options[poll_votes[i].option_id].post_id
                = poll_options[row.option_id].post_id
uix_user_option_vote(row) ==
    \A i \in 1..Len(poll_votes) :
        ~ /\ poll_votes[i].user_id = row.user_id
          /\ poll_votes[i].option_id = row.option_id

\* db.session.add(PollVote(...)); db.session.commit()
poll_vote_insert(user_id, option_id) ==
    LET row == PollVote(user_id, option_id) IN
    /\ Len(poll_votes) < MaxVotes
    /\ IF user_id = Null \/ option_id = Null
       THEN /\ poll_votes' = poll_votes
            /\ response' = Resp("poll_votes", None, None, "NOT NULL")
       ELSE IF ~uix_user_option_vote(row)
       THEN /\ poll_votes' = poll_votes
            /\ response' = Resp("poll_votes", None, None, "uix_user_option_vote")
       ELSE /\ poll_votes' = Append(poll_votes, row)
            /\ response' = Resp("poll_votes", None, None, None)
    /\ UNCHANGED <<boot, channels, comments, users, resets, reactions, outbox, now,
                   auth, login_email, pc, local>>

-----------------------------------------------------------------------------
(* Table comments (models.py, class Comment) *)

Comment(id, author_id, post_id, parent_id) ==
    [id |-> id, author_id |-> author_id, post_id |-> post_id, parent_id |-> parent_id]

\* Whether the database enforces foreign keys: PostgreSQL does, SQLite only
\* after PRAGMA foreign_keys=ON, which the program never issues.
ForeignKeysEnforced == config["app"][1] # "sqlite"

\* ForeignKey('comments.id') on parent_id: TRUE when the insert is refused.
CommentParentViolation(parent_id) ==
    /\ ForeignKeysEnforced
    /\ parent_id # Null
    /\ ~ \E i \in 1..Len(comments) : comments[i].id = parent_id

\* db.session.add(Comment(...)); db.session.commit()
comment_insert(author_id, post_id, parent_id) ==
    /\ Len(comments) < MaxComments
    /\ IF author_id = Null \/ post_id = Null
       THEN /\ comments' = comments
            /\ response' = Resp("comments", None, None, "NOT NULL")
       ELSE IF CommentParentViolation(parent_id)
       THEN /\ comments' = comments
            /\ response' = Resp("comments", None, None, "FOREIGN KEY")
       ELSE /\ comments' = Append(comments,
                                  Comment(Len(comments) + 1, author_id, post_id, parent_id))
            /\ response' = Resp("comments", None, None, None)
    /\ UNCHANGED <<boot, channels, poll_votes, users, resets, reactions, outbox, now,
                   auth, login_email, pc, local>>

-----------------------------------------------------------------------------
(* Start-up: init_db (database.py) *)

\* The Flask apps that call init_db: the web application (app.py) and the
\* backup script (db_backup.py).
Apps == {"app", "db_backup"}

\* A database URI is the sequence of its parts; a substring test on the URI
\* is a test on the parts.
SqliteUri == <<"sqlite", ":///", "retronet_portal.db">>
BackupUri == <<"postgresql", "+pg8000", "://", "postgres:postgres@localhost:5432/retronet_portal">>

\* What DATABASE_URL may hold, and the default when it is not set.
DatabaseUrls ==
    {SqliteUri,
     <<"postgresql", "://", "portal@db.internal/portal">>,
     BackupUri,
     <<"postgres", "://", "portal@db.internal/portal">>,
     <<"mysql", "://", "portal@db.internal/portal">>,
     <<"sqlite", ":///", "/srv/", "postgresql", "_export.db">>}

\* 'postgresql' in app.config['SQLALCHEMY_DATABASE_URI']
ContainsPostgresql(uri) == \E i \in 1..Len(uri) : uri[i] = "postgresql"

\* What the connection test does: it connects, create_engine or connect
\* raises sqlalchemy.exc.OperationalError, or raises another exception (the
\* driver is missing, the URI does not parse, the driver reports the refused
\* connection as an InterfaceError).
ConnectOutcomes == {"connected", "OperationalError", "Exception"}

init_db(app, outcome) ==
    /\ init_result[app] = None
    /\ IF outcome = "connected"
       THEN /\ init_result' = [init_result EXCEPT ![app] = "True"]
            /\ init_log' = Append(init_log, "Database connection successful")
            /\ config' = config
       ELSE IF outcome = "OperationalError"
       THEN IF ContainsPostgresql(config[app])
            THEN /\ config' = [config EXCEPT ![app] = SqliteUri]
                 /\ init_result' = [init_result EXCEPT ![app] = "True"]
                 /\ init_log' = init_log \o <<"Database connection error",
                                               "Falling back to SQLite database">>
            ELSE /\ init_result' = [init_result EXCEPT ![app] = "False"]
                 /\ init_log' = Append(init_log, "Database connection error")
                 /\ config' = config
       ELSE /\ init_result' = [init_result EXCEPT ![app] = "False"]
            /\ init_log' = Append(init_log, "Error initializing database")
            /\ config' = config
    /\ UNCHANGED <<feed, users, resets, reactions, outbox, now, auth, login_email,
                   pc, local, response>>

-----------------------------------------------------------------------------
(* The specifications *)

\* The account register() creates for alice / a@x.com / pw1.
AliceUser == User(2, "alice", "a@x.com", generate_password_hash("pw1", "salt1"))

\* The database of SpecAccounts: the account without a password.
InitAccounts ==
    /\ users = <<LegacyUser>>
    /\ resets = <<>>
    /\ reactions = <<>>
    /\ outbox = <<>>
    /\ now = 0
    /\ auth = [s \in Sessions |-> Anonymous]
    /\ login_email = [s \in Sessions |-> None]
    /\ pc = [s \in Sessions |-> "idle"]
    /\ local = [s \in Sessions |-> NoLocal]
    /\ response = Resp(None, None, None, None)
    /\ channels = <<>>
    /\ comments = <<>>
    /\ poll_votes = <<>>
    /\ config = [a \in Apps |-> IF a = "app" THEN SqliteUri ELSE BackupUri]
    /\ init_result = [a \in Apps |-> IF a = "app" THEN "True" ELSE None]
    /\ init_log = <<"Database connection successful">>

\* The database of Spec and SpecSocial: a state SpecAccounts reaches, with
\* the account without a password and a registered account.
Init ==
    /\ users = <<LegacyUser, AliceUser>>
    /\ resets = <<>>
    /\ reactions = <<>>
    /\ outbox = <<>>
    /\ now = 0
    /\ auth = [s \in Sessions |-> Anonymous]
    /\ login_email = [s \in Sessions |-> None]
    /\ pc = [s \in Sessions |-> "idle"]
    /\ local = [s \in Sessions |-> NoLocal]
    /\ response = Resp(None, None, None, None)
    /\ channels = <<>>
    /\ comments = <<>>
    /\ poll_votes = <<>>
    /\ config = [a \in Apps |-> IF a = "app" THEN SqliteUri ELSE BackupUri]
    /\ init_result = [a \in Apps |-> IF a = "app" THEN "True" ELSE None]
    /\ init_log = <<"Database connection successful">>

\* The requests the clients send. A field a request does not carry (the
\* password of a passwordless login, the draw of a password login) is left
\* at one value: the handler never reads it.
LoginRequests ==
    {r \in [formValid : BOOLEAN, email : Emails \cup {""},
            password : Passwords \cup {""}, login_type : {"password", "code"},
            draw : Draws, commitFails : BOOLEAN, mailFails : BOOLEAN] :
        /\ ~r.formValid => r.email = ""
        /\ r.email = "" => r.password = ""
        /\ r.login_type = "code" => r.password = ""
        /\ (r.login_type = "password" \/ r.email = "") =>
              r.draw = <<1, 1, 1, 1, 1, 1>> /\ ~r.commitFails /\ ~r.mailFails
        /\ r.commitFails => ~r.mailFails}

PasswordLoginRequests == {r \in LoginRequests : r.login_type = "password"}

CodeLoginRequests == {r \in LoginRequests : r.login_type = "code"}

VerifyRequests ==
    {r \in [formValid : BOOLEAN, code : SubmittedCodes, queryFails : BOOLEAN] :
        /\ ~r.formValid => r.code = <<>>
        /\ r.code = <<>> => ~r.queryFails}

RegisterRequests ==
    {r \in [formValid : BOOLEAN, email : Emails \cup {""},
            username : Usernames \cup {""}, password : RegisterPasswords \cup {""}] :
        /\ ~r.formValid => r.email = "" /\ r.username = "" /\ r.password = ""
        /\ Cardinality({f \in {r.email, r.username, r.password} : f = ""}) \in {0, 1, 3}}

ReactionRequests ==
    [user_id : {1, 2, Null}, post_id : PostIds \cup {Null},
     comment_id : CommentIds \cup {Null}, reaction_type : ReactionTypes \cup {None}]

\* Spec: the clients log in with codes.
Next ==
    \/ \E s \in Sessions, r \in CodeLoginRequests :
            login(s, r.formValid, r.email, r.password, r.login_type, r.draw,
                  r.commitFails, r.mailFails)
    \/ \E s \in Sessions, r \in VerifyRequests :
            verify_login(s, r.formValid, r.code, r.queryFails)
    \/ \E s \in Sessions, fault \in {"none", "flush", "commit"} :
            verify_login_accept(s, fault)
    \/ \E s \in Sessions : logout(s)
    \/ Tick

\* SpecAccounts: the clients register and log in with passwords.
NextAccounts ==
    \/ \E s \in Sessions, r \in RegisterRequests :
            register(s, r.formValid, r.email, r.username, r.password)
    \/ \E s \in Sessions, salt \in Salts, commitFails \in BOOLEAN :
            register_insert(s, salt, commitFails)
    \/ \E s \in Sessions, r \in PasswordLoginRequests :
            login(s, r.formValid, r.email, r.password, r.login_type, r.draw,
                  r.commitFails, r.mailFails)
    \/ \E s \in Sessions : logout(s)

NextSocial ==
    \E r \in ReactionRequests :
        reaction_insert(r.user_id, r.post_id, r.comment_id, r.reaction_type)

\* SpecBoot: the two programs start; DATABASE_URL holds any of the URIs.
InitBoot ==
    /\ users = <<>>
    /\ resets = <<>>
    /\ reactions = <<>>
    /\ outbox = <<>>
    /\ now = 0
    /\ auth = [s \in Sessions |-> Anonymous]
    /\ login_email = [s \in Sessions |-> None]
    /\ pc = [s \in Sessions |-> "idle"]
    /\ local = [s \in Sessions |-> NoLocal]
    /\ response = Resp(None, None, None, None)
    /\ channels = <<>>
    /\ comments = <<>>
    /\ poll_votes = <<>>
    /\ \E uri \in DatabaseUrls :
            config = [a \in Apps |-> IF a = "app" THEN uri ELSE BackupUri]
    /\ init_result = [a \in Apps |-> None]
    /\ init_log = <<>>

NextBoot ==
    \E app \in Apps, outcome \in ConnectOutcomes : init_db(app, outcome)

\* SpecRequests: the requests that write the database, with no time passing.
NextRequests ==
    \/ \E s \in Sessions, r \in CodeLoginRequests :
            login(s, r.formValid, r.email, r.password, r.login_type, r.draw,
                  r.commitFails, r.mailFails)
    \/ \E s \in Sessions, r \in VerifyRequests :
            verify_login(s, r.formValid, r.code, r.queryFails)
    \/ \E s \in Sessions, fault \in {"none", "flush", "commit"} :
            verify_login_accept(s, fault)
    \/ \E s \in Sessions, r \in RegisterRequests :
            register(s, r.formValid, r.email, r.username, r.password)
    \/ \E s \in Sessions, salt \in Salts, commitFails \in BOOLEAN :
            register_insert(s, salt, commitFails)

\* SpecChannels: a client posts channel forms and channels are stored.
NextChannels ==
    \/ \E name \in ChannelNames : ChannelForm_validate("s1", name)
    \/ \E name \in ChannelNames, slug \in Slugs : channel_insert(name, slug)

\* SpecPolls: votes are stored.
NextPolls ==
    \E user_id \in {1, 2, Null}, option_id \in OptionIds \cup {Null} :
        poll_vote_insert(user_id, option_id)

\* SpecComments: comments are stored, in the embedded database or in the
\* client-server one.
InitComments ==
    /\ users = <<LegacyUser, AliceUser>>
    /\ resets = <<>>
    /\ reactions = <<>>
    /\ outbox = <<>>
    /\ now = 0
    /\ auth = [s \in Sessions |-> Anonymous]
    /\ login_email = [s \in Sessions |-> None]
    /\ pc = [s \in Sessions |-> "idle"]
    /\ local = [s \in Sessions |-> NoLocal]
    /\ response = Resp(None, None, None, None)
    /\ channels = <<>>
    /\ comments = <<>>
    /\ poll_votes = <<>>
    /\ \E uri \in {SqliteUri, BackupUri} :
            config = [a \in Apps |-> IF a = "app" THEN uri ELSE BackupUri]
    /\ init_result = [a \in Apps |-> IF a = "app" THEN "True" ELSE None]
    /\ init_log = <<"Database connection successful">>

NextComments ==
    \E author_id \in {1, Null}, post_id \in PostIds \cup {Null},
       parent_id \in (1..MaxComments) \cup {Null} :
        comment_insert(author_id, post_id, parent_id)

\* SpecVerify: codes are verified in a database from which the account of
\* a@x.com was removed after a code was issued for it to session s1 (no
\* handler removes an account; verify_login has a branch for the case).
InitVerify ==
    /\ users = <<LegacyUser>>
    /\ resets = <<PasswordReset("a@x.com", GenerateCode(<<1, 1, 1, 1, 1, 1>>), 0)>>
    /\ reactions = <<>>
    /\ outbox = <<[to |-> "a@x.com", code |-> GenerateCode(<<1, 1, 1, 1, 1, 1>>)]>>
    /\ now = 0
    /\ auth = [s \in Sessions |-> Anonymous]
    /\ login_email = [s \in Sessions |-> IF s = "s1" THEN "a@x.com" ELSE None]
    /\ pc = [s \in Sessions |-> "idle"]
    /\ local = [s \in Sessions |-> NoLocal]
    /\ response = Resp("login", "A verification code has been sent to your email",
                       "redirect:verify_login", None)
    /\ channels = <<>>
    /\ comments = <<>>
    /\ poll_votes = <<>>
    /\ config = [a \in Apps |-> IF a = "app" THEN SqliteUri ELSE BackupUri]
    /\ init_result = [a \in Apps |-> IF a = "app" THEN "True" ELSE None]
    /\ init_log = <<"Database connection successful">>

Spec == Init /\ [][Next]_vars

SpecVerify == InitVerify /\ [][Next]_vars

SpecComments == InitComments /\ [][NextComments]_vars

SpecPolls == Init /\ [][NextPolls]_vars

SpecChannels == Init /\ [][NextChannels]_vars

SpecRequests == Init /\ [][NextRequests]_vars

SpecBoot == InitBoot /\ [][NextBoot]_vars

SpecAccounts == InitAccounts /\ [][NextAccounts]_vars

SpecSocial == Init /\ [][NextSocial]_vars

-----------------------------------------------------------------------------
(* Properties of verify_login *)

Digits == {"0", "1", "2", "3", "4", "5", "6", "7", "8", "9"}

InvalidOrExpired ==
    [route |-> "verify_login", flash |-> "Invalid or expired verification code",
     view |-> "verify_login.html", log |-> None]

\* The rows of an email that are not used, and those among them that hold
\* the given code.
UnusedRows(email) ==
    {i \in 1..Len(resets) : resets[i].email = email /\ ~resets[i].used}

MatchingRows(email, code) ==
    {i \in UnusedRows(email) : resets[i].code = code}

\* A verify_login request of session s that reaches the query for the code:
\* the session is not logged in and holds a pending email, the form is valid,
\* the code field is not empty and the query does not raise.
VerifyReachesQuery(s, r) ==
    /\ response'.route = "verify_login" \/ pc'[s] = "verify_login_accept"
    /\ auth[s] = Anonymous
    /\ login_email[s] # None
    /\ r.formValid
    /\ r.code # <<>>
    /\ ~r.queryFails
    /\ verify_login(s, r.formValid, r.code, r.queryFails)

\* C1 as stated: a submitted code is accepted if and only if it is the code
\* of the most recently issued unused row of the session's pending email and
\* that row was issued at most 30 minutes before the request.
C1_OnlyMostRecentCodeAccepted ==
    [][\A s \in Sessions, r \in VerifyRequests :
        VerifyReachesQuery(s, r) =>
            ( pc'[s] = "verify_login_accept"
              <=> LET unused == UnusedRows(login_email[s]) IN
                  /\ unused # {}
                  /\ resets[Max(unused)].code = r.code
                  /\ now - resets[Max(unused)].created_at <= ExpiryMinutes )]_vars

\* C1 as amended: a submitted code is accepted if and only if an unused row
\* of the session's pending email holds that code and the most recently
\* issued such row was issued at most 30 minutes before the request (a newer
\* code for the email does not retire an older one); the accepted request
\* then logs the session in as the account of the pending email unless the
\* flush of the update raises, and no other verify_login step logs a
\* session in.
C1_AcceptedIffFreshUnusedMatch ==
    [][/\ \A s \in Sessions, r \in VerifyRequests :
            VerifyReachesQuery(s, r) =>
                /\ pc'[s] = "verify_login_accept"
                   <=> LET match == MatchingRows(login_email[s], r.code) IN
                       /\ match # {}
                       /\ now - Max({resets[i].created_at : i \in match}) <= ExpiryMinutes
                /\ auth' = auth
       /\ \A s \in Sessions, fault \in {"none", "commit"} :
            (pc[s] = "verify_login_accept" /\ verify_login_accept(s, fault)) =>
                /\ auth'[s] # Anonymous
                /\ users[auth'[s]].email = login_email[s]
       /\ \A s \in Sessions :
            (auth[s] = Anonymous /\ auth'[s] # Anonymous /\ response'.route = "verify_login")
                => pc[s] = "verify_login_accept"]_vars

\* A session was logged in by a code that was not the newest unused code of
\* its email: a newer unused row with another code was there.
C1_Witness ==
    /\ response = [route |-> "verify_login", flash |-> None,
                   view |-> "redirect:dashboard", log |-> None]
    /\ \E s \in Sessions : auth[s] # Anonymous
    /\ \E i, j \in 1..Len(resets) :
            /\ i < j
            /\ resets[i].email = resets[j].email
            /\ resets[i].code # resets[j].code
            /\ resets[i].used /\ ~resets[j].used

\* The code of a used row that no later row of the email has been issued
\* with again: a code that a successful verify_login consumed.
Consumed(email, code) ==
    \E i \in 1..Len(resets) :
        /\ resets[i].email = email /\ resets[i].code = code /\ resets[i].used
        /\ \A j \in 1..Len(resets) :
              j > i => ~(resets[j].email = email /\ resets[j].code = code)

\* C2: a code is single-use: once a verify_login request succeeded with a
\* code for an email, every later verify_login request with that code for
\* that email fails with 'Invalid or expired verification code'.
C2_CodeIsSingleUse ==
    [][\A s \in Sessions, r \in VerifyRequests :
        (VerifyReachesQuery(s, r) /\ Consumed(login_email[s], r.code)) =>
            /\ pc'[s] = "idle"
            /\ response' = InvalidOrExpired]_vars

-----------------------------------------------------------------------------
(* Properties of password login *)

\* A POST to /login with login_type 'password' that reaches the handler's
\* credential checks: the session is not logged in and the form is valid.
PasswordLoginStep(s, r) ==
    /\ response'.route = "login"
    /\ auth[s] = Anonymous
    /\ r.formValid
    /\ r.login_type = "password"
    /\ login(s, r.formValid, r.email, r.password, r.login_type, r.draw,
             r.commitFails, r.mailFails)

\* The hashes of a password: what hashing it yields under some salt.
HashesOf(password) == {<<"pbkdf2", salt, Digest(salt, password)>> : salt \in Salts}

\* The accounts a submitted email and password log in: the account of that
\* email, when it has a password hash and the hash is one of the password.
Verified(email, password) ==
    {i \in 1..Len(users) :
        /\ users[i].email = email
        /\ users[i].password_hash # <<>>
        /\ users[i].password_hash \in HashesOf(password)}

\* C3: a password login logs the session in if and only if an account exists
\* for the email, it has a non-empty password hash and the hash verifies
\* against the submitted password; otherwise the session stays logged out.
C3_PasswordLoginIffHashVerifies ==
    [][\A s \in Sessions, r \in PasswordLoginRequests :
        PasswordLoginStep(s, r) =>
            IF Verified(r.email, r.password) # {}
            THEN auth'[s] # Anonymous /\ auth'[s] \in Verified(r.email, r.password)
            ELSE auth' = auth]_vars

\* A password login logged a session in: both sessions are logged in, and
\* registration logs in one session for each account it creates.
C3_Witness ==
    /\ response = [route |-> "login", flash |-> None,
                   view |-> "redirect:dashboard", log |-> None]
    /\ \A s \in Sessions : auth[s] # Anonymous
    /\ \E s \in Sessions : auth[s] # Anonymous /\ users[auth[s]].password_hash # <<>>

\* A password login with an email and a password that is rejected: there is
\* no account, the account has no password, or the password does not match.
PasswordLoginRejected(s, r) ==
    /\ PasswordLoginStep(s, r)
    /\ r.email # "" /\ r.password # ""
    /\ auth'[s] = Anonymous

LoginFlashes ==
    {"No account found with this email address",
     "Please use passwordless login or reset your password",
     "Invalid password", "Invalid email or password", None}

\* The same rejection, as a step that shows the message flash.
RejectedWith(s, r, flash) ==
    /\ auth[s] = Anonymous
    /\ r.formValid
    /\ r.email # "" /\ r.password # ""
    /\ login(s, r.formValid, r.email, r.password, r.login_type, r.draw,
             r.commitFails, r.mailFails)
    /\ auth'[s] = Anonymous
    /\ response'.flash = flash

\* C8: a rejected password login shows one message whatever the reason:
\* whenever one is rejected, every password login that the same state
\* rejects would have been shown the same message.
C8_OneMessageForEveryRejection ==
    [][\A s \in Sessions, r \in PasswordLoginRequests :
        PasswordLoginRejected(s, r) =>
            \A q \in PasswordLoginRequests, flash \in LoginFlashes :
                (ENABLED RejectedWith(s, q, flash))
                    => flash = response'.flash]_vars

-----------------------------------------------------------------------------
(* Properties of passwordless login *)

\* A passwordless POST to /login for an existing account: the session is
\* not logged in, the form is valid and the email has an account.
PasswordlessLoginStep(s, r) ==
    /\ response'.route = "login"
    /\ auth[s] = Anonymous
    /\ r.formValid
    /\ r.login_type = "code"
    /\ \E i \in 1..Len(users) : users[i].email = r.email
    /\ login(s, r.formValid, r.email, r.password, r.login_type, r.draw,
             r.commitFails, r.mailFails)

\* One row was added to password_resets and the rows before it are as they
\* were.
OneRowAdded ==
    /\ Len(resets') = Len(resets) + 1
    /\ SubSeq(resets', 1, Len(resets)) = resets

\* C9: when the code is issued and the mail cannot be sent, the caller is
\* shown the generic error and the issued row stays in the table, unused;
\* no later step removes a row or makes a used row unused.
C9_MailFailureKeepsIssuedCode ==
    [][/\ response'.route = "login" =>
          \A s \in Sessions, r \in CodeLoginRequests :
            (~r.commitFails /\ r.mailFails /\ PasswordlessLoginStep(s, r)) =>
                /\ response'.flash = "Error sending verification code"
                /\ response'.view = "login.html"
                /\ OneRowAdded
                /\ resets'[Len(resets')].email = r.email
                /\ resets'[Len(resets')].used = FALSE
       /\ Len(resets') >= Len(resets)
       /\ \A i \in 1..Len(resets) :
            /\ resets'[i].email = resets[i].email
            /\ resets'[i].code = resets[i].code
            /\ resets'[i].created_at = resets[i].created_at
            /\ resets[i].used => resets'[i].used]_vars

\* The mail of the newest code failed and its row is in the table, unused.
C9_Witness ==
    /\ response = [route |-> "login", flash |-> "Error sending verification code",
                   view |-> "login.html", log |-> "MailError"]
    /\ Len(resets) >= 1
    /\ resets[Len(resets)].used = FALSE
    /\ outbox[Len(outbox)].code = resets[Len(resets)].code

\* C10: a passwordless login for an existing account adds exactly one row
\* holding the email, a code of 6 digits, the time of issue and used = false,
\* and makes exactly one send attempt, for that email and code; when the
\* commit of the row raises there is no row and no send attempt, so every
\* send attempt is for a committed row.
C10_OneRowOneMailPerIssuance ==
    [][/\ response'.route = "login" =>
          \A s \in Sessions, r \in CodeLoginRequests :
            PasswordlessLoginStep(s, r) =>
                IF r.commitFails
                THEN resets' = resets /\ outbox' = outbox
                ELSE /\ OneRowAdded
                     /\ LET row == resets'[Len(resets')] IN
                        /\ row.email = r.email
                        /\ Len(row.code) = 6
                        /\ \A k \in 1..Len(row.code) : row.code[k] \in Digits
                        /\ row.created_at = now
                        /\ row.used = FALSE
                        /\ outbox' = Append(outbox, [to |-> r.email, code |-> row.code])
       /\ Len(outbox') = Len(resets')
       /\ \A k \in 1..Len(outbox') :
            /\ outbox'[k].to = resets'[k].email
            /\ outbox'[k].code = resets'[k].code]_vars

\* A code was issued and mailed.
C10_Witness ==
    /\ response = [route |-> "login",
                   flash |-> "A verification code has been sent to your email",
                   view |-> "redirect:verify_login", log |-> None]
    /\ Len(resets) >= 1
    /\ Len(outbox) = Len(resets)
    /\ \E s \in Sessions : login_email[s] = resets[Len(resets)].email

-----------------------------------------------------------------------------
(* The outcome of a rejected code *)

\* Why a submitted code finds no usable row: no row of the email holds it,
\* every row that holds it is used, or the newest unused row that holds it
\* is older than 30 minutes.
NoSuchCode(email, code) ==
    \A i \in 1..Len(resets) : ~(resets[i].email = email /\ resets[i].code = code)

AlreadyUsed(email, code) ==
    /\ ~NoSuchCode(email, code)
    /\ MatchingRows(email, code) = {}

TooOld(email, code) ==
    /\ MatchingRows(email, code) # {}
    /\ \A i \in MatchingRows(email, code) : now - resets[i].created_at > ExpiryMinutes

\* C7: a code that matches no issued code, a code already used and a code
\* older than 30 minutes get the identical response 'Invalid or expired
\* verification code', and the session stays as it was.
C7_SameResponseForEveryReason ==
    [][\A s \in Sessions, r \in VerifyRequests :
        ( /\ VerifyReachesQuery(s, r)
          /\ \/ NoSuchCode(login_email[s], r.code)
             \/ AlreadyUsed(login_email[s], r.code)
             \/ TooOld(login_email[s], r.code) ) =>
            /\ response' = InvalidOrExpired
            /\ pc' = pc /\ auth' = auth /\ login_email' = login_email
            /\ resets' = resets]_vars

\* A code was rejected in a state where a session's pending email has a used
\* code and an unused code that is too old.
C7_Witness ==
    /\ response = InvalidOrExpired
    /\ \E s \in Sessions, c, d \in SubmittedCodes :
            /\ auth[s] = Anonymous /\ login_email[s] # None
            /\ AlreadyUsed(login_email[s], c)
            /\ TooOld(login_email[s], d)

-----------------------------------------------------------------------------
(* Properties of register *)

\* A register request that reaches the look-ups for the email and the
\* username: the session is not logged in, the form is valid and the three
\* fields are filled in.
RegisterReachesLookups(s, r) ==
    /\ response'.route = "register" \/ pc'[s] = "register_insert"
    /\ auth[s] = Anonymous
    /\ r.formValid
    /\ r.email # "" /\ r.username # "" /\ r.password # ""
    /\ register(s, r.formValid, r.email, r.username, r.password)

EmailStored(email) == \E i \in 1..Len(users) : users[i].email = email

UsernameStored(username) == \E i \in 1..Len(users) : users[i].username = username

\* C4: a registration whose email or username belongs to a stored user is
\* rejected with the message of that field (the email's when both are
\* stored), goes no further than the look-ups and leaves the users as they
\* were.
C4_DuplicateRegistrationRejected ==
    [][\A s \in Sessions, r \in RegisterRequests :
        ( /\ RegisterReachesLookups(s, r)
          /\ EmailStored(r.email) \/ UsernameStored(r.username) ) =>
            /\ users' = users
            /\ pc'[s] = "idle"
            /\ auth' = auth
            /\ response'.view = "register.html"
            /\ IF EmailStored(r.email)
               THEN response'.flash = "Email already registered"
               ELSE response'.flash = "Username already taken"]_vars

\* A registration was rejected for its username.
C4_Witness ==
    /\ response = [route |-> "register", flash |-> "Username already taken",
                   view |-> "register.html", log |-> None]
    /\ \A s \in Sessions : pc[s] = "idle"

\* Two register requests with the same username are both past the look-ups
\* and neither has written: no stored user has the username.
Racing(s, t) ==
    /\ s # t
    /\ pc[s] = "register_insert" /\ pc[t] = "register_insert"
    /\ local[s].username = local[t].username
    /\ ~UsernameStored(local[s].username)

\* C5: of two concurrent registrations with the same username that both
\* passed the look-ups, the first to commit creates the user and is logged
\* in (when its email is free and its commit does not fail for another
\* reason), the one that commits after it fails on the uniqueness
\* constraint, writes nothing and is not logged in, and no two stored users
\* ever share a username.
C5_ConcurrentRegistrationOneWinner ==
    [][/\ \A s, t \in Sessions, salt \in Salts :
            ( /\ Racing(s, t)
              /\ ~EmailStored(local[s].email)
              /\ register_insert(s, salt, FALSE) ) =>
                /\ Len(users') = Len(users) + 1
                /\ users'[Len(users')].username = local[s].username
                /\ auth'[s] = users'[Len(users')].id
                /\ response'.view = "redirect:dashboard"
                /\ pc'[t] = "register_insert"
       /\ \A t \in Sessions, salt \in Salts, commitFails \in BOOLEAN :
            ( /\ pc[t] = "register_insert"
              /\ UsernameStored(local[t].username)
              /\ register_insert(t, salt, commitFails) ) =>
                /\ users' = users
                /\ auth'[t] = Anonymous
                /\ response' = [route |-> "register", flash |-> "Error creating account",
                                view |-> "register.html", log |-> "IntegrityError"]
       /\ \A i, j \in 1..Len(users') :
            users'[i].username = users'[j].username => i = j]_vars

\* The loser of a race has just failed on the constraint while the winner,
\* the newest user, is logged in.
C5_Witness ==
    /\ response = [route |-> "register", flash |-> "Error creating account",
                   view |-> "register.html", log |-> "IntegrityError"]
    /\ \E s, t \in Sessions :
            /\ auth[s] = Len(users) /\ auth[t] = Anonymous
            /\ pc[s] = "idle" /\ pc[t] = "idle"

-----------------------------------------------------------------------------
(* Properties of the reactions table *)

ExactlyOneTarget(row) ==
    (row.post_id # Null) # (row.comment_id # Null)

\* C6: every stored reaction has exactly one of post_id and comment_id; an
\* insert with both or with neither is refused and leaves the table as it
\* was.
C6_ReactionHasExactlyOneTarget ==
    [][/\ \A i \in 1..Len(reactions') : ExactlyOneTarget(reactions'[i])
       /\ \A r \in ReactionRequests :
            ( /\ ~ExactlyOneTarget(r)
              /\ reaction_insert(r.user_id, r.post_id, r.comment_id, r.reaction_type) ) =>
                /\ reactions' = reactions
                /\ response'.log # None]_vars

\* An insert was refused by the check constraint, with reactions stored.
C6_Witness ==
    /\ response.log = "chk_reaction_target"
    /\ Len(reactions) >= 2
    /\ \E i, j \in 1..Len(reactions) :
            reactions[i].post_id # Null /\ reactions[j].comment_id # Null

-----------------------------------------------------------------------------
(* Properties of init_db *)

\* A URI of the client-server database: its scheme is postgresql, with or
\* without a driver.
PostgresqlUri(uri) == uri[1] = "postgresql"

\* C16: when the connection test succeeds init_db returns True and leaves
\* the URI; when it fails for a postgresql URI the URI becomes the local
\* sqlite URI and init_db returns True; when it fails for another URI
\* init_db returns False and leaves the URI.
C16_FallbackOnConnectionFailure ==
    [][\A app \in Apps, outcome \in ConnectOutcomes :
        init_db(app, outcome) =>
            IF outcome = "connected"
            THEN init_result'[app] = "True" /\ config'[app] = config[app]
            ELSE IF PostgresqlUri(config[app])
            THEN init_result'[app] = "True" /\ config'[app] = SqliteUri
            ELSE init_result'[app] = "False" /\ config'[app] = config[app]]_vars

-----------------------------------------------------------------------------
(* Properties of a successful registration *)

\* C11: a register request with the three fields filled in, whose email and
\* username are not stored, passes the look-ups without writing; its insert,
\* when the two are still not stored and the commit does not raise, adds
\* exactly one user with that email and username and a password hash that
\* verifies against the submitted password and no other, and logs the
\* session in as that user.
C11_RegistrationCreatesAndLogsIn ==
    [][/\ \A s \in Sessions, r \in RegisterRequests :
            ( /\ RegisterReachesLookups(s, r)
              /\ ~EmailStored(r.email) /\ ~UsernameStored(r.username) ) =>
                /\ pc'[s] = "register_insert"
                /\ local'[s].email = r.email
                /\ local'[s].username = r.username
                /\ local'[s].password = r.password
                /\ users' = users /\ auth' = auth
       /\ \A s \in Sessions, salt \in Salts :
            ( /\ pc[s] = "register_insert"
              /\ ~EmailStored(local[s].email) /\ ~UsernameStored(local[s].username)
              /\ register_insert(s, salt, FALSE) ) =>
                /\ Len(users') = Len(users) + 1
                /\ SubSeq(users', 1, Len(users)) = users
                /\ LET user == users'[Len(users')] IN
                   /\ user.email = local[s].email
                   /\ user.username = local[s].username
                   /\ check_password_hash(user.password_hash, local[s].password)
                   /\ \A p \in (Passwords \cup {""}) \ {local[s].password} :
                        ~check_password_hash(user.password_hash, p)
                   /\ auth'[s] = user.id
                   /\ \A i \in 1..Len(users') : users'[i].id = user.id => i = Len(users')
                /\ response' = [route |-> "register", flash |-> None,
                                view |-> "redirect:dashboard", log |-> None]]_vars

\* A registration has just created the newest user and logged its session
\* in; the stored hash verifies the registered password.
C11_Witness ==
    /\ response = [route |-> "register", flash |-> None,
                   view |-> "redirect:dashboard", log |-> None]
    /\ \E s \in Sessions :
            /\ auth[s] = Len(users)
            /\ users[auth[s]].username \in {"alice", "bob"}
            /\ check_password_hash(users[auth[s]].password_hash, "pw1")
            /\ ~check_password_hash(users[auth[s]].password_hash, "pw2")

-----------------------------------------------------------------------------
(* Atomicity of a request's database writes *)

\* The exceptions a request step may have raised, as its response records
\* them: a database error, or the mail error that send_verification_code
\* catches.
DatabaseErrors == {"OperationalError", "IntegrityError"}

TablesWritten == users' # users \/ resets' # resets

\* The requests in which a database step raises.
LoginsWhoseCommitRaises ==
    {[formValid |-> TRUE, email |-> e, password |-> "", login_type |-> "code",
      draw |-> d, commitFails |-> TRUE, mailFails |-> FALSE] : e \in Emails, d \in Draws}

VerifiesWhoseQueryRaises == {r \in VerifyRequests : r.queryFails}

\* C12 as stated: a step of login, verify_login or register that writes the
\* database belongs to a request in which nothing raised: when any step of
\* the request raises, none of its writes is persisted.
C12_NoWriteWhenAnyStepRaises ==
    [][TablesWritten => response'.log = None]_vars

\* C12 as amended: when a database step of the request raises (the commit of
\* login, the query, flush or commit of verify_login, the insert or commit
\* of register) none of the request's writes is persisted; a write is
\* persisted only by a request whose commit succeeded, and the only
\* exception after a successful commit that leaves the write in place is
\* the mail error of passwordless login, which keeps the one issued row.
C12_NoWriteWhenDatabaseStepRaises ==
    [][/\ \A s \in Sessions, r \in LoginsWhoseCommitRaises :
            ( /\ response'.route = "login"
              /\ auth[s] = Anonymous /\ UserByEmail(r.email) # 0
              /\ login(s, r.formValid, r.email, r.password, r.login_type, r.draw,
                       r.commitFails, r.mailFails) ) =>
                ~TablesWritten /\ response'.log \in DatabaseErrors
       /\ \A s \in Sessions, r \in VerifiesWhoseQueryRaises :
            ( /\ response'.route = "verify_login"
              /\ auth[s] = Anonymous /\ login_email[s] # None
              /\ verify_login(s, r.formValid, r.code, r.queryFails) ) =>
                ~TablesWritten /\ response'.log \in DatabaseErrors
       /\ \A s \in Sessions, fault \in {"flush", "commit"} :
            verify_login_accept(s, fault) => ~TablesWritten
       /\ \A s \in Sessions, salt \in Salts :
            register_insert(s, salt, TRUE) =>
                ~TablesWritten /\ response'.log \in DatabaseErrors
       /\ response'.log \in DatabaseErrors => ~TablesWritten
       /\ TablesWritten =>
            \/ response'.log = None
            \/ /\ response'.log = "MailError"
               /\ response'.route = "login"
               /\ OneRowAdded /\ users' = users]_vars

\* A commit of verify_login has just failed: the session is logged in by
\* login_user, and the row of its code is still unused.
C12_Witness ==
    /\ response = [route |-> "verify_login", flash |-> "Error processing verification",
                   view |-> "verify_login.html", log |-> "OperationalError"]
    /\ \E s \in Sessions :
            /\ auth[s] # Anonymous
            /\ login_email[s] # None
            /\ \E i \in 1..Len(resets) :
                    resets[i].email = login_email[s] /\ ~resets[i].used
    /\ Len(users) = 3

-----------------------------------------------------------------------------
(* Properties of channel names *)

\* C13: a channel name is refused by the form whenever its slug is the slug
\* of a stored channel, whatever the stored channel's name is, and no two
\* stored channels ever have the same slug.
C13_ChannelUniqueBySlug ==
    [][/\ \A s \in Sessions, name \in ChannelNames :
            ( /\ response'.route = "ChannelForm" /\ local'[s].name = name
              /\ Len(name) >= ChannelNameMinLen
              /\ \E i \in 1..Len(channels) : channels[i].slug = slugify(name)
              /\ ChannelForm_validate(s, name) ) =>
                response'.flash = "A channel with this name already exists."
       /\ \A i, j \in 1..Len(channels') :
            channels'[i].slug = channels'[j].slug => i = j]_vars

\* A name was refused whose slug is stored under a name that differs from
\* it, and an insert of a stored slug has been tried before.
C13_Witness ==
    /\ response.route = "ChannelForm"
    /\ response.flash = "A channel with this name already exists."
    /\ Len(channels) = MaxChannels
    /\ \E s \in Sessions, i \in 1..Len(channels) :
            /\ local[s].name # <<>>
            /\ channels[i].slug = slugify(local[s].name)
            /\ channels[i].name # local[s].name
            /\ \A j \in 1..Len(channels) : channels[j].name # local[s].name

-----------------------------------------------------------------------------
(* Registration and the constraints of RegistrationForm *)

\* C14: a registration whose fields violate the constraints of the
\* registration form (username shorter than 3, password shorter than 8,
\* malformed email, terms not accepted) never stores a user: the insert of
\* such a request leaves the users as they were.
C14_InvalidRegistrationNeverPersisted ==
    [][\A s \in Sessions, salt \in Salts, commitFails \in BOOLEAN, terms \in BOOLEAN :
        ( /\ pc[s] = "register_insert"
          /\ ~RegistrationForm_validate(local[s].username, local[s].email,
                                        local[s].password, terms)
          /\ register_insert(s, salt, commitFails) ) =>
            users' = users]_vars

\* C15: a registration that passed the look-ups and whose insert fails on
\* the uniqueness of the username or the email, because a concurrent
\* registration stored it first, is shown the message of a duplicated
\* field: 'Username already taken' or 'Email already registered'.
C15_RaceLoserToldAlreadyTaken ==
    [][\A t \in Sessions, salt \in Salts, commitFails \in BOOLEAN :
        ( /\ pc[t] = "register_insert"
          /\ UsernameStored(local[t].username) \/ EmailStored(local[t].email)
          /\ register_insert(t, salt, commitFails) ) =>
            /\ response'.log = "IntegrityError"
            /\ response'.flash \in
                 {m \in {"Username already taken", "Email already registered"} :
                    \/ m = "Username already taken" /\ UsernameStored(local[t].username)
                    \/ m = "Email already registered" /\ EmailStored(local[t].email)}]_vars

-----------------------------------------------------------------------------
(* Uniqueness of reactions *)

\* The stored reactions of a user on a post, and on a comment.
ReactionsOnPost(rows, user_id, post_id) ==
    {i \in 1..Len(rows) : rows[i].user_id = user_id /\ rows[i].post_id = post_id}

ReactionsOnComment(rows, user_id, comment_id) ==
    {i \in 1..Len(rows) : rows[i].user_id = user_id /\ rows[i].comment_id = comment_id}

\* C17: no two stored reactions have the same user and the same post, nor
\* the same user and the same comment; a reaction of a user on a target the
\* user has not reacted to is stored, whatever the user's reactions on other
\* targets are, so that a user holds a reaction on a post and one on a
\* comment at the same time.
C17_OneReactionPerUserAndTarget ==
    [][/\ \A u \in {1, 2}, p \in PostIds :
            Cardinality(ReactionsOnPost(reactions', u, p)) <= 1
       /\ \A u \in {1, 2}, c \in CommentIds :
            Cardinality(ReactionsOnComment(reactions', u, c)) <= 1
       /\ \A r \in ReactionRequests :
            ( /\ r.user_id # Null /\ r.reaction_type # None
              /\ ExactlyOneTarget(r)
              /\ r.post_id # Null => ReactionsOnPost(reactions, r.user_id, r.post_id) = {}
              /\ r.comment_id # Null =>
                    ReactionsOnComment(reactions, r.user_id, r.comment_id) = {}
              /\ reaction_insert(r.user_id, r.post_id, r.comment_id, r.reaction_type) ) =>
                reactions' = Append(reactions, r)]_vars

\* A second reaction of a user on a comment was refused while the user holds
\* a reaction on a post and one on a comment.
C17_Witness ==
    /\ response.log = "uix_user_comment_reaction"
    /\ \E u \in {1, 2}, p \in PostIds, c \in CommentIds :
            /\ ReactionsOnPost(reactions, u, p) # {}
            /\ ReactionsOnComment(reactions, u, c) # {}

-----------------------------------------------------------------------------
(* Uniqueness of poll votes *)

VotesOn(rows, user_id, option_id) ==
    {i \in 1..Len(rows) : rows[i].user_id = user_id /\ rows[i].option_id = option_id}

-----------------------------------------------------------------------------
(* Replies *)

\* C19: every stored comment that has a parent_id references a stored
\* comment, and that comment is on the same post as the reply.
C19_ReplyOnSamePostAsParent ==
    \A i \in 1..Len(comments) :
        comments[i].parent_id # Null =>
            \E j \in 1..Len(comments) :
                /\ comments[j].id = comments[i].parent_id
                /\ comments[j].post_id = comments[i].post_id

-----------------------------------------------------------------------------
(* Single use of a code under concurrency *)

\* The row the request of session s found is the only row of its code.
OnlyRowOfItsCode(s) ==
    \A j \in 1..Len(resets) :
        j # local[s].reset => resets[j].code # resets[local[s].reset].code

\* C20: of the verify_login requests that submit the same unused code for
\* the same pending email, at most one logs its session in: a request that
\* logs its session in does so with a row that no other request has used
\* (the code being one that was issued once).
C20_AtMostOneConcurrentVerifyLogsIn ==
    [][\A s \in Sessions :
        ( /\ pc[s] = "verify_login_accept"
          /\ OnlyRowOfItsCode(s)
          /\ auth[s] = Anonymous /\ auth'[s] # Anonymous ) =>
            ~resets[local[s].reset].used]_vars

-----------------------------------------------------------------------------
(* Authentication and consumption of the code *)

\* C21: a session is logged in by verify_login only together with the
\* consumption of its code: after the step that logs the session in, the
\* row it matched is stored as used, also when the commit after login_user
\* raises.
C21_LoggedInOnlyWithCodeConsumed ==
    [][\A s \in Sessions :
        ( /\ pc[s] = "verify_login_accept"
          /\ auth[s] = Anonymous /\ auth'[s] # Anonymous ) =>
            resets'[local[s].reset].used]_vars

-----------------------------------------------------------------------------
(* The pending email of a session *)

\* The passwordless logins whose row is committed and whose mail is sent.
LoginsWhoseMailIsSent ==
    {[formValid |-> TRUE, email |-> e, password |-> "", login_type |-> "code",
      draw |-> d, commitFails |-> FALSE, mailFails |-> FALSE] : e \in Emails, d \in Draws}

\* C22: verify_login never logs in a session that has no login_email and
\* sends it to the login page instead; a session's login_email is set only
\* by its own passwordless login for that email whose mail was sent; the
\* user that verify_login logs in is the account of the session's
\* login_email; and a successful verification clears login_email.
C22_VerifyBoundToPendingEmail ==
    [][/\ \A s \in Sessions, r \in VerifyRequests :
            ( /\ response'.route = "verify_login"
              /\ auth[s] = Anonymous /\ login_email[s] = None
              /\ verify_login(s, r.formValid, r.code, r.queryFails) ) =>
                /\ response' = [route |-> "verify_login",
                                flash |-> "Please start the login process again",
                                view |-> "redirect:login", log |-> None]
                /\ auth' = auth /\ pc' = pc
       /\ \A s \in Sessions :
            pc'[s] = "verify_login_accept" => login_email'[s] # None
       /\ \A s \in Sessions :
            (login_email'[s] # login_email[s] /\ login_email'[s] # None) =>
                /\ \E r \in LoginsWhoseMailIsSent :
                        /\ r.email = login_email'[s]
                        /\ login(s, r.formValid, r.email, r.password, r.login_type,
                                 r.draw, r.commitFails, r.mailFails)
                /\ outbox'[Len(outbox')].to = login_email'[s]
                /\ response'.flash = "A verification code has been sent to your email"
       /\ \A s \in Sessions :
            ( /\ pc[s] = "verify_login_accept"
              /\ auth[s] = Anonymous /\ auth'[s] # Anonymous ) =>
                /\ login_email[s] # None
                /\ users[auth'[s]].email = login_email[s]
                /\ users[auth'[s]].id = auth'[s]
       /\ \A s \in Sessions :
            ( /\ pc[s] = "verify_login_accept" /\ pc'[s] = "idle"
              /\ response' = [route |-> "verify_login", flash |-> None,
                              view |-> "redirect:dashboard", log |-> None] ) =>
                login_email'[s] = None /\ auth'[s] # Anonymous]_vars

\* A verification has just succeeded: its session is logged in as the
\* account of a@x.com with no pending email left, while the other session
\* is logged out and holds no pending email although a code was issued for
\* c@x.com.
C22_Witness ==
    /\ response = [route |-> "verify_login", flash |-> None,
                   view |-> "redirect:dashboard", log |-> None]
    /\ \E s, t \in Sessions :
            /\ auth[s] # Anonymous /\ login_email[s] = None
            /\ users[auth[s]].email = "a@x.com"
            /\ auth[t] = Anonymous /\ login_email[t] = None
            /\ \E i \in 1..Len(resets) : resets[i].email = "c@x.com"

-----------------------------------------------------------------------------
(* A verification that does not log the session in *)

\* The used flags of the stored rows are as they were.
UsedFlagsUnchanged ==
    /\ Len(resets') = Len(resets)
    /\ \A i \in 1..Len(resets) : resets'[i].used = resets[i].used

\* C23: a verify_login request that does not log its session in leaves the
\* used flag of every row as it was: with an empty code, no matching row,
\* an expired row, a query that raises, a matching row but no user for the
\* email, and a flush that raises.
C23_FailedVerifyLeavesUsedFlags ==
    [][/\ \A s \in Sessions, r \in VerifyRequests :
            ( /\ response'.route = "verify_login" \/ pc'[s] = "verify_login_accept"
              /\ verify_login(s, r.formValid, r.code, r.queryFails) ) =>
                UsedFlagsUnchanged /\ auth' = auth
       /\ \A s \in Sessions, fault \in {"none", "flush", "commit"} :
            ( /\ pc[s] = "verify_login_accept"
              /\ verify_login_accept(s, fault)
              /\ auth'[s] = Anonymous ) =>
                /\ UsedFlagsUnchanged
                /\ response'.flash \in {"User not found", "Error processing verification"}]_vars

\* A code was matched for an email that has no account: the request ended
\* with 'User not found', its session is logged out and the row of the code
\* is unused.
C23_Witness ==
    /\ response = [route |-> "verify_login", flash |-> "User not found",
                   view |-> "redirect:login", log |-> None]
    /\ \E s \in Sessions :
            /\ auth[s] = Anonymous /\ pc[s] = "idle"
            /\ login_email[s] = "a@x.com"
            /\ \E i \in 1..Len(resets) : resets[i].email = "a@x.com" /\ ~resets[i].used

====
